---- MODULE Spec2Model ----
(***************************************************************************)
(* Cinema ticketing backend: seat validation (TicketSerializer.validate),  *)
(* order creation (OrderSerializer / OrderSerializer.create) and the       *)
(* token exchange (AuthTokenSerializer.validate) of cinema/serializers.py. *)
(*                                                                         *)
(* A request is handled in the steps the code takes: boundary validation   *)
(* (is_valid), then create(): open the atomic block and create the order,  *)
(* then one Ticket.objects.create per ticket in input order, then commit.  *)
(* Spec runs one request at a time (request-per-call); SpecConc runs two   *)
(* order requests with their steps interleaved.                            *)
(***************************************************************************)
EXTENDS Integers, Sequences, FiniteSets, TLC

VARIABLES orders, tickets, txn

vars == <<orders, tickets, txn>>

(***************************************************************************)
(* Bounds and data                                                         *)
(***************************************************************************)
\* longest ticket list of an order request
MaxTickets == 2
\* row and seat inputs of a validation call range over 0..MaxCoord
MaxCoord == 2

\* CinemaHall.rows / CinemaHall.seats_in_row of the hall of each movie session
Halls == <<[rows |-> 1, seats_in_row |-> 2], [rows |-> 1, seats_in_row |-> 1]>>
Sessions == DOMAIN Halls
Users == {"ann", "bob"}
\* the auth provider's accounts: email -> password
Accounts == [e \in Users |-> IF e = "ann" THEN "pw1" ELSE "pw2"]
\* the token the token store keeps for each user
Tokens == [u \in Users |-> IF u = "ann" THEN "tok-ann" ELSE "tok-bob"]
\* an absent request field (Python None); the empty string is a blank field
None == "<none>"
Emails == {None, "", "ann", "bob", "eve"}
Passwords == {None, "", "pw1", "pw2"}
Workers == {1, 2}

Attrs(s, r, c) == [movie_session |-> s, row |-> r, seat |-> c]
\* every ticket a validation call is tried on
TicketInputs == {Attrs(s, r, c) : s \in Sessions, r \in 0..MaxCoord, c \in 0..MaxCoord}
\* the seats that exist
Seats ==
    UNION {{Attrs(s, r, c) : r \in 1..Halls[s].rows, c \in 1..Halls[s].seats_in_row} :
             s \in Sessions}
\* tickets of order requests: every seat, one row past the hall, one seat past the row
OrderTickets ==
    Seats \cup {Attrs(1, Halls[1].rows + 1, 1), Attrs(1, 1, Halls[1].seats_in_row + 1)}

SeqsUpTo(S, n) == UNION {[1..m -> S] : m \in 0..n}
OrderInputs == SeqsUpTo(OrderTickets, MaxTickets)
ConcInputs == SeqsUpTo(Seats, MaxTickets) \ {<<>>}

(***************************************************************************)
(* Errors and responses                                                    *)
(***************************************************************************)
Err(kind, field, bound) == [error |-> kind, field |-> field, bound |-> bound]
NoError == Err("", "", 0)
NoResponse ==
    [status |-> 0, error |-> NoError, idx |-> 0, errors |-> <<>>,
     order |-> 0, user |-> None, token |-> None]

\* the status the HTTP boundary answers an error with
HttpStatus(error) ==
    IF error = NoError THEN 200
    ELSE IF error.error \in {"NotAuthenticated", "AuthenticationFailed"} THEN 401
    ELSE 400

\* a persisted Ticket row
Row(o, a) == [order |-> o, movie_session |-> a.movie_session, row |-> a.row, seat |-> a.seat]
SameSeat(x, y) ==
    x.movie_session = y.movie_session /\ x.row = y.row /\ x.seat = y.seat
Taken(rows, a) == \E i \in 1..Len(rows) : SameSeat(rows[i], a)

(***************************************************************************)
(* Seat Validator                                                          *)
(***************************************************************************)
\* Ticket.validate_ticket(row, seat, movie_session), against the rows `rows`
validate_ticket(row, seat, movie_session, rows) ==
    LET hall == Halls[movie_session] IN
    IF ~(1 <= row /\ row <= hall.rows)
    THEN Err("RangeError", "row", hall.rows)
    ELSE IF ~(1 <= seat /\ seat <= hall.seats_in_row)
    THEN Err("RangeError", "seat", hall.seats_in_row)
    ELSE IF Taken(rows, Attrs(movie_session, row, seat))
    THEN Err("ConflictError", "non_field", 0)
    ELSE NoError

\* faulty variant: row and seat passed in the wrong order
TicketSerializer_validate_swapped(attrs, rows) ==
    validate_ticket(attrs.seat, attrs.row, attrs.movie_session, rows)

\* faulty variant: the seat-taken check is run against no rows
TicketSerializer_validate_blind(attrs, rows) ==
    validate_ticket(attrs.row, attrs.seat, attrs.movie_session, <<>>)

\* TicketSerializer.validate(attrs): the error raised, NoError when data is returned
TicketSerializer_validate(attrs, rows) ==
    validate_ticket(attrs.row, attrs.seat, attrs.movie_session, rows)

(***************************************************************************)
(* Boundary validation of an order request                                 *)
(***************************************************************************)
\* faulty variant: allow_empty=True
AllowEmpty_true == TRUE

\* OrderSerializer.tickets = TicketSerializer(many=True, allow_empty=False)
AllowEmpty == FALSE

\* the per-ticket errors of the list field, each ticket validated against `rows`
ChildErrors(data, rows) ==
    [i \in 1..Len(data) |-> TicketSerializer_validate(data[i], rows)]

FirstError(errors) ==
    IF \E i \in 1..Len(errors) : errors[i] # NoError
    THEN CHOOSE i \in 1..Len(errors) :
            /\ errors[i] # NoError
            /\ \A j \in 1..(i - 1) : errors[j] = NoError
    ELSE 0

\* OrderSerializer.is_valid: the response of a rejected request, NoResponse when
\* validated_data is handed to create()
OrderSerializer_is_valid(data, rows) ==
    LET errors == ChildErrors(data, rows)
        first == FirstError(errors)
    IN  IF Len(data) = 0 /\ ~AllowEmpty
        THEN [NoResponse EXCEPT !.status = 400,
                                !.error = Err("EmptyInputError", "tickets", 0)]
        ELSE IF first # 0
        THEN [NoResponse EXCEPT !.status = 400, !.error = errors[first],
                                !.idx = first, !.errors = errors]
        ELSE NoResponse

(***************************************************************************)
(* Requests in flight                                                      *)
(***************************************************************************)
Idle ==
    [pc |-> "idle", op |-> "", user |-> None, data |-> <<>>,
     email |-> None, password |-> None,
     k |-> 0, order |-> 0, pending |-> <<>>, response |-> NoResponse]

\* what a request reads: the committed rows and its own uncommitted ones
Visible(w) == tickets \o txn[w].pending

OrderIds == {o.id : o \in orders} \cup {txn[w].order : w \in Workers}
Max(S) == CHOOSE x \in S : \A y \in S : y <= x
NextOrderId == Max(OrderIds \cup {0}) + 1

\* faulty variant: the loop walks tickets_data backwards
TicketAt_reversed(data, k) == data[Len(data) + 1 - k]

\* `for ticket_data in tickets_data`: the k-th ticket the loop handles
TicketAt(data, k) == data[k]

\* leaving the atomic block normally: the order and its tickets become visible
Committed(os, ts, t) ==
    [orders |-> os \cup {[id |-> t.order, user |-> t.user]},
     tickets |-> ts \o t.pending]

\* faulty variant: no atomic block, every write is kept
RolledBack_autocommit(os, ts, t) == Committed(os, ts, t)

\* leaving `with transaction.atomic()` by an exception: nothing is kept
RolledBack(os, ts, t) == [orders |-> os, tickets |-> ts]

\* the request ends with `error` raised by the k-th Ticket.objects.create
Failed(w, error) ==
    LET t == txn[w]
        db == RolledBack(orders, tickets, t)
    IN  /\ orders' = db.orders
        /\ tickets' = db.tickets
        /\ txn' = [txn EXCEPT ![w] =
                [t EXCEPT !.pc = "done", !.order = 0, !.pending = <<>>,
                          !.response = [NoResponse EXCEPT !.status = 400,
                                           !.error = error, !.idx = t.k]]]

\* a request arrives: POST orders
ReceiveOrder(w, user, data) ==
    /\ txn[w].pc = "idle"
    /\ txn' = [txn EXCEPT ![w] =
            [Idle EXCEPT !.pc = "is_valid", !.op = "order", !.user = user, !.data = data]]
    /\ UNCHANGED <<orders, tickets>>

\* serializer.is_valid() of the order request
OrderIsValid(w) ==
    /\ txn[w].pc = "is_valid" /\ txn[w].op = "order"
    /\ LET r == OrderSerializer_is_valid(txn[w].data, tickets) IN
        txn' = [txn EXCEPT ![w] =
            IF r = NoResponse THEN [@ EXCEPT !.pc = "create"]
            ELSE [@ EXCEPT !.pc = "done", !.response = r]]
    /\ UNCHANGED <<orders, tickets>>

\* create(): enter the atomic block, pop the tickets, Order.objects.create
BeginCreate(w) ==
    /\ txn[w].pc = "create"
    /\ txn' = [txn EXCEPT ![w] =
            [@ EXCEPT !.pc = IF Len(txn[w].data) = 0 THEN "return" ELSE "clean",
                      !.order = NextOrderId, !.k = 1, !.pending = <<>>]]
    /\ UNCHANGED <<orders, tickets>>

\* faulty variant: the ticket is saved without being validated again
SaveError_unchecked(a, rows) == NoError

\* Ticket.objects.create, first half: the Seat Validator is run again
SaveError(a, rows) == validate_ticket(a.row, a.seat, a.movie_session, rows)

TicketClean(w) ==
    /\ txn[w].pc = "clean"
    /\ LET error == SaveError(TicketAt(txn[w].data, txn[w].k), Visible(w)) IN
        IF error # NoError
        THEN Failed(w, error)
        ELSE /\ txn' = [txn EXCEPT ![w].pc = "insert"]
             /\ UNCHANGED <<orders, tickets>>

\* faulty variant: the table has no uniqueness constraint
UniqueViolation_none(a, rows) == FALSE

\* the storage's uniqueness constraint over (movie_session, row, seat)
UniqueViolation(a, rows) == Taken(rows, a)

\* another open transaction holds an uncommitted row the constraint would reject:
\* the write waits until that transaction ends
HeldBy(v, a) ==
    txn[v].pc \in {"clean", "insert", "return"} /\ UniqueViolation(a, txn[v].pending)
Blocked(w) ==
    /\ txn[w].pc = "insert"
    /\ \E v \in Workers \ {w} : HeldBy(v, TicketAt(txn[w].data, txn[w].k))

\* Ticket.objects.create, second half: the row is written
TicketInsert(w) ==
    /\ txn[w].pc = "insert"
    /\ LET t == txn[w]
           a == TicketAt(t.data, t.k)
       IN  IF UniqueViolation(a, Visible(w))
           THEN Failed(w, Err("ConflictError", "non_field", 0))
           ELSE /\ ~Blocked(w)
                /\ txn' = [txn EXCEPT ![w] =
                        [t EXCEPT !.pending = Append(t.pending, Row(t.order, a)),
                                  !.k = t.k + 1,
                                  !.pc = IF t.k = Len(t.data) THEN "return" ELSE "clean"]]
                /\ UNCHANGED <<orders, tickets>>

\* two writers wait for each other's rows: the storage aborts one of them
DeadlockAbort(w) ==
    /\ Blocked(w)
    /\ \E v \in Workers \ {w} :
          /\ HeldBy(v, TicketAt(txn[w].data, txn[w].k))
          /\ Blocked(v)
          /\ HeldBy(w, TicketAt(txn[v].data, txn[v].k))
    /\ Failed(w, Err("ConflictError", "non_field", 0))

\* `return order`: the atomic block is left and the transaction commits
CommitOrder(w) ==
    /\ txn[w].pc = "return"
    /\ LET t == txn[w]
           db == Committed(orders, tickets, t)
       IN  /\ orders' = db.orders
           /\ tickets' = db.tickets
           /\ txn' = [txn EXCEPT ![w] =
                   [t EXCEPT !.pc = "done", !.pending = <<>>,
                             !.response = [NoResponse EXCEPT !.status = 201,
                                                             !.order = t.order]]]

\* the response is sent and the request is over
Respond(w) ==
    /\ txn[w].pc = "done"
    /\ txn' = [txn EXCEPT ![w] = Idle]
    /\ UNCHANGED <<orders, tickets>>

\* OrderListSerializer: the tickets of an order as read back
ReadOrder(id, rows) ==
    LET own == SelectSeq(rows, LAMBDA r : r.order = id) IN
    [i \in 1..Len(own) |-> Attrs(own[i].movie_session, own[i].row, own[i].seat)]

(***************************************************************************)
(* A single ticket validated on its own                                    *)
(***************************************************************************)
ReceiveValidate(w, attrs) ==
    /\ txn[w].pc = "idle"
    /\ txn' = [txn EXCEPT ![w] =
            [Idle EXCEPT !.pc = "is_valid", !.op = "ticket", !.data = <<attrs>>]]
    /\ UNCHANGED <<orders, tickets>>

\* faulty variant: a successful validation books the seat
AfterValidate_reserving(rows, attrs, error) ==
    IF error = NoError THEN Append(rows, Row(0, attrs)) ELSE rows

\* the Ticket rows after TicketSerializer.validate: it only reads them
AfterValidate(rows, attrs, error) == rows

ValidateTicket(w) ==
    /\ txn[w].pc = "is_valid" /\ txn[w].op = "ticket"
    /\ LET attrs == txn[w].data[1]
           error == TicketSerializer_validate(attrs, tickets)
       IN  /\ tickets' = AfterValidate(tickets, attrs, error)
           /\ txn' = [txn EXCEPT ![w] =
                   [@ EXCEPT !.pc = "done",
                             !.response = [NoResponse EXCEPT
                                 !.status = HttpStatus(error),
                                 !.error = error]]]
    /\ UNCHANGED orders

(***************************************************************************)
(* Token exchange                                                          *)
(***************************************************************************)
\* Python truthiness of a string or None
Truthy(x) == x # None /\ x # ""

\* django.contrib.auth.authenticate: the user, or None
authenticate(username, password) ==
    IF username \in DOMAIN Accounts /\ Accounts[username] = password
    THEN username ELSE None

AuthError == Err("ValidationError", "authorization", 0)

\* faulty variant: a missing user is not rejected
AuthTokenSerializer_validate_lax(email, password) ==
    IF Truthy(email) /\ Truthy(password)
    THEN [error |-> NoError, user |-> authenticate(email, password)]
    ELSE [error |-> AuthError, user |-> None]

\* AuthTokenSerializer.validate(attrs): the error raised, or attrs["user"]
AuthTokenSerializer_validate(email, password) ==
    IF Truthy(email) /\ Truthy(password)
    THEN LET user == authenticate(email, password) IN
         IF user = None
         THEN [error |-> AuthError, user |-> None]
         ELSE [error |-> NoError, user |-> user]
    ELSE [error |-> AuthError, user |-> None]

\* the declared fields: email and password are required and may not be blank
AuthFieldError(email, password) ==
    IF email = None THEN Err("ValidationError", "email", 0)
    ELSE IF email = "" THEN Err("ValidationError", "email", 0)
    ELSE IF password = None THEN Err("ValidationError", "password", 0)
    ELSE IF password = "" THEN Err("ValidationError", "password", 0)
    ELSE NoError

ReceiveToken(w, email, password) ==
    /\ txn[w].pc = "idle"
    /\ txn' = [txn EXCEPT ![w] =
            [Idle EXCEPT !.pc = "is_valid", !.op = "token",
                         !.email = email, !.password = password]]
    /\ UNCHANGED <<orders, tickets>>

\* POST api/token-auth/: field validation, validate(), then the user's token
ObtainToken(w) ==
    /\ txn[w].pc = "is_valid" /\ txn[w].op = "token"
    /\ LET t == txn[w]
           ferr == AuthFieldError(t.email, t.password)
           v == AuthTokenSerializer_validate(t.email, t.password)
           error == IF ferr # NoError THEN ferr ELSE v.error
           user == IF error = NoError THEN v.user ELSE None
       IN  txn' = [txn EXCEPT ![w] =
               [t EXCEPT !.pc = "done",
                         !.response = [NoResponse EXCEPT
                             !.status = HttpStatus(error),
                             !.error = error,
                             !.user = user,
                             !.token = IF error = NoError /\ user \in DOMAIN Tokens
                                       THEN Tokens[user] ELSE None]]]
    /\ UNCHANGED <<orders, tickets>>

(***************************************************************************)
(* Specifications                                                          *)
(***************************************************************************)
Init ==
    /\ orders = {}
    /\ tickets = <<>>
    /\ txn = [w \in Workers |-> Idle]

\* one request at a time, handled by worker 1
Next ==
    \/ \E user \in Users : \E data \in OrderInputs : ReceiveOrder(1, user, data)
    \/ \E attrs \in TicketInputs : ReceiveValidate(1, attrs)
    \/ \E email \in Emails : \E password \in Passwords : ReceiveToken(1, email, password)
    \/ OrderIsValid(1)
    \/ BeginCreate(1)
    \/ TicketClean(1)
    \/ TicketInsert(1)
    \/ CommitOrder(1)
    \/ ValidateTicket(1)
    \/ ObtainToken(1)
    \/ Respond(1)

Spec == Init /\ [][Next]_vars

\* two order requests in flight at once
InitConc ==
    /\ orders = {}
    /\ tickets = <<>>
    /\ \E d1 \in ConcInputs : \E d2 \in ConcInputs :
          txn = [w \in Workers |->
                    [Idle EXCEPT !.pc = "is_valid", !.op = "order",
                                 !.user = IF w = 1 THEN "ann" ELSE "bob",
                                 !.data = IF w = 1 THEN d1 ELSE d2]]

NextConc ==
    \E w \in Workers :
        \/ OrderIsValid(w)
        \/ BeginCreate(w)
        \/ TicketClean(w)
        \/ TicketInsert(w)
        \/ DeadlockAbort(w)
        \/ CommitOrder(w)

SpecConc == InitConc /\ [][NextConc]_vars

(***************************************************************************)
(* Properties                                                              *)
(***************************************************************************)
InRange(a) ==
    /\ 1 <= a.row /\ a.row <= Halls[a.movie_session].rows
    /\ 1 <= a.seat /\ a.seat <= Halls[a.movie_session].seats_in_row
HasDuplicate(data) ==
    \E i \in 1..Len(data) : \E j \in 1..Len(data) : i # j /\ data[i] = data[j]
Shares(d1, d2) == \E i \in 1..Len(d1) : \E j \in 1..Len(d2) : d1[i] = d2[j]
Done(w, op) == txn[w].pc = "done" /\ txn[w].op = op
Created(w) == Done(w, "order") /\ txn[w].response.status = 201
\* the request failed inside create(), after passing the boundary
Aborted(w) ==
    /\ Done(w, "order") /\ txn[w].response.status = 400
    /\ txn[w].response.idx >= 1 /\ txn[w].response.errors = <<>>

\* C1: no two persisted tickets of the same movie session have the same
\* (row, seat), whatever order requests ran, failed or not, interleaved or not,
\* including requests whose own ticket list names a seat twice.
C1_SeatBookingInvariant ==
    \A i \in 1..Len(tickets) : \A j \in 1..Len(tickets) :
        i # j => ~SameSeat(tickets[i], tickets[j])

\* a request naming a seat twice has failed, another has booked two seats of
\* one session
C1_Witness ==
    \E w \in Workers : \E v \in Workers \ {w} :
        /\ Aborted(w) /\ HasDuplicate(txn[w].data)
        /\ Created(v) /\ Len(tickets) = 2
        /\ tickets[1].movie_session = tickets[2].movie_session

\* C2: the persisted orders and tickets change only when an order commits:
\* a request that fails at its k-th ticket leaves both exactly as they were.
C2_OrderAtomicity ==
    [][(orders' # orders \/ tickets' # tickets) =>
          \E w \in Workers :
              /\ txn[w].pc = "return"
              /\ txn'[w].pc = "done" /\ txn'[w].response.status = 201
              /\ orders' = orders \cup {[id |-> txn[w].order, user |-> txn[w].user]}
              /\ tickets' = tickets \o txn[w].pending]_vars

\* a request failed at its second ticket, after its order and first ticket
\* had been written inside the transaction, while earlier orders are persisted
C2_Witness ==
    /\ Aborted(1) /\ txn[1].response.idx = 2
    /\ orders # {}

\* C3: two requests for a common seat, each valid on its own (no seat named
\* twice in one request), with their steps interleaved in any way: once both
\* have ended, exactly one has created its order, the other has failed with a
\* conflict error, and the common seat is booked once, by the order created.
C3_OneWinner ==
    LET d1 == txn[1].data
        d2 == txn[2].data
    IN  (/\ Done(1, "order") /\ Done(2, "order")
         /\ Shares(d1, d2) /\ ~HasDuplicate(d1) /\ ~HasDuplicate(d2))
        => \E w \in Workers : \E v \in Workers \ {w} :
              /\ Created(w)
              /\ txn[v].response.status = 400
              /\ txn[v].response.error.error = "ConflictError"
              /\ \A i \in 1..Len(d1) :
                    (\E j \in 1..Len(d2) : d1[i] = d2[j]) =>
                        /\ Cardinality({n \in 1..Len(tickets) : SameSeat(tickets[n], d1[i])}) = 1
                        /\ \A n \in 1..Len(tickets) :
                              SameSeat(tickets[n], d1[i]) =>
                                  tickets[n].order = txn[w].response.order

\* both requests passed the boundary, then one lost the seat inside create()
C3_Witness ==
    \E w \in Workers : \E v \in Workers \ {w} :
        /\ Created(w) /\ Aborted(v)
        /\ Shares(txn[w].data, txn[v].data)
        /\ ~HasDuplicate(txn[w].data) /\ ~HasDuplicate(txn[v].data)

\* C4: validating a ticket succeeds exactly when its row and seat lie in the
\* hall of its session and no persisted ticket of that session has the seat.
C4_ValidIffFree ==
    Done(1, "ticket") =>
        LET a == txn[1].data[1] IN
        (txn[1].response.error = NoError) <=> (InRange(a) /\ ~Taken(tickets, a))

\* a free seat validated while other seats are booked
C4_Witness ==
    /\ Done(1, "ticket") /\ txn[1].response.error = NoError
    /\ Len(tickets) >= 1

\* C5: inside create() the tickets are validated again and written one by one
\* in input order; a ticket whose seat is taken by then ends the request with
\* the conflict error of that ticket, the first one to fail.
C5_Revalidated ==
    [][\A w \in Workers :
          LET t == txn[w]
              a == t.data[t.k]
          IN  /\ t.pc \in {"clean", "insert"} =>
                    /\ t.k = Len(t.pending) + 1
                    /\ t.pending = [i \in 1..(t.k - 1) |-> Row(t.order, t.data[i])]
              /\ (t.pc = "clean" /\ txn'[w] # t) =>
                    IF Taken(tickets \o t.pending, a)
                    THEN /\ txn'[w].pc = "done"
                         /\ txn'[w].response.error.error = "ConflictError"
                         /\ txn'[w].response.idx = t.k
                    ELSE txn'[w].pc = "insert"
              /\ (t.pc = "insert" /\ txn'[w] # t) =>
                    IF Taken(tickets \o t.pending, a)
                    THEN /\ txn'[w].pc = "done"
                         /\ txn'[w].response.error.error = "ConflictError"
                         /\ txn'[w].response.idx = t.k
                    ELSE \/ txn'[w].pending = Append(t.pending, Row(t.order, a))
                         \/ /\ Blocked(w)
                            /\ txn'[w].response.error.error = "ConflictError"]_vars

\* a request passed the boundary and wrote its first ticket, and the seat of
\* its second was booked by the other request before it could be written
C5_Witness ==
    \E w \in Workers : \E v \in Workers \ {w} :
        /\ Aborted(w) /\ txn[w].response.idx = 2
        /\ ~HasDuplicate(txn[w].data)
        /\ Created(v)

\* C6: an order request with no tickets is rejected before create() runs, and
\* every persisted order has at least one ticket.
C6_NoEmptyOrder ==
    /\ \A o \in orders : \E i \in 1..Len(tickets) : tickets[i].order = o.id
    /\ (txn[1].op = "order" /\ txn[1].data = <<>>) =>
          /\ txn[1].pc \in {"is_valid", "done"}
          /\ txn[1].pc = "done" =>
                /\ txn[1].response.status = 400
                /\ txn[1].response.error.error = "EmptyInputError"

\* an empty request was rejected while orders exist
C6_Witness ==
    /\ Done(1, "order") /\ txn[1].data = <<>>
    /\ txn[1].response.status = 400
    /\ orders # {}

\* C7: an order that was created reads back as exactly the requested tickets,
\* in the order they were requested.
C7_RoundTrip ==
    Created(1) => ReadOrder(txn[1].response.order, tickets) = txn[1].data

\* a two-ticket order created after another order
C7_Witness ==
    /\ Created(1) /\ Len(txn[1].data) = 2
    /\ Cardinality(orders) >= 2

\* C8: the row range is checked first, then the seat range, then availability;
\* the first failing check gives the error.
C8_CheckOrder ==
    Done(1, "ticket") =>
        LET a == txn[1].data[1]
            hall == Halls[a.movie_session]
            rowOk == 1 <= a.row /\ a.row <= hall.rows
            seatOk == 1 <= a.seat /\ a.seat <= hall.seats_in_row
            e == txn[1].response.error
        IN  /\ ~rowOk => e = Err("RangeError", "row", hall.rows)
            /\ (rowOk /\ ~seatOk) => e = Err("RangeError", "seat", hall.seats_in_row)
            /\ (rowOk /\ seatOk /\ Taken(tickets, a)) => e.error = "ConflictError"
            /\ e.error = "ConflictError" => (rowOk /\ seatOk /\ Taken(tickets, a))

\* row and seat both out of range: the row is reported
C8_Witness ==
    /\ Done(1, "ticket")
    /\ ~(txn[1].data[1].row \in 1..Halls[txn[1].data[1].movie_session].rows)
    /\ ~(txn[1].data[1].seat \in 1..Halls[txn[1].data[1].movie_session].seats_in_row)
    /\ txn[1].response.error.field = "row"

\* C9: validating a ticket changes no persisted order or ticket, so the same
\* validation run again gives the same answer.
C9_PureCheck ==
    [][(txn[1].op = "ticket" /\ txn[1].pc = "is_valid" /\ txn'[1].pc = "done") =>
          /\ orders' = orders
          /\ tickets' = tickets
          /\ txn'[1].response.error = TicketSerializer_validate(txn[1].data[1], tickets')]_vars

\* a taken seat was validated
C9_Witness ==
    /\ Done(1, "ticket")
    /\ txn[1].response.error.error = "ConflictError"

CredentialsFail(email, password) ==
    ~Truthy(email) \/ ~Truthy(password) \/ authenticate(email, password) = None

\* C10 as stated: failed credentials are answered with status 401.
C10_Status401 ==
    (Done(1, "token") /\ CredentialsFail(txn[1].email, txn[1].password)) =>
        /\ txn[1].response.status = 401
        /\ txn[1].response.user = None
        /\ txn[1].response.token = None

\* C10, amended: failed credentials are answered as a validation failure with
\* status 400 and give no user and no token; a user is returned only when email
\* and password are both present and the auth provider returned that user.
C10_Status400 ==
    Done(1, "token") =>
        LET t == txn[1] IN
        /\ CredentialsFail(t.email, t.password) =>
              /\ t.response.status = 400
              /\ t.response.user = None
              /\ t.response.token = None
        /\ t.response.user # None =>
              /\ Truthy(t.email) /\ Truthy(t.password)
              /\ t.response.user = authenticate(t.email, t.password)
        /\ AuthTokenSerializer_validate(t.email, t.password).user # None =>
              /\ Truthy(t.email) /\ Truthy(t.password)
              /\ authenticate(t.email, t.password) # None

\* a known email with the wrong password
C10_Witness ==
    /\ Done(1, "token")
    /\ txn[1].email = "ann" /\ txn[1].password = "pw2"
    /\ txn[1].response.status = 400

====
